---------------------------- MODULE Spec2Model ----------------------------
(***************************************************************************)
(* Student Performance Dashboard (src/app.py).                             *)
(*                                                                         *)
(* The program loads a table of student records, cleans it in six          *)
(* straight-line statements (lines 16-39) and then serves two callbacks:   *)
(* set_secondary_options (lines 101-104) and update_graph (lines 112-166). *)
(*                                                                         *)
(* Text is modelled as a sequence of one-character strings so that         *)
(* str.lower / str.upper / astype(str) are computed character by           *)
(* character.  A table cell is either NaN or a value; grade_numeric is     *)
(* kept in hundredths (4.33 is 433, -0.3 is -30).  A percentage, a float   *)
(* in the program, is kept as the exact fraction <<100 * count, total>>.   *)
(***************************************************************************)
EXTENDS Integers, Sequences, FiniteSets, TLC

VARIABLES
    pc,              \* position in the module-level script (lines 16-39), then "serving"
    raw,             \* the table as returned by pd.read_csv (line 13)
    df,              \* the module-level DataFrame `df`
    reply,           \* what the server returned for the request being answered
    primary,         \* browser: value of primary-category-dropdown
    secondary,       \* browser: value of secondary-category-dropdown
    options,         \* browser: options of secondary-category-dropdown
    figure,          \* browser: figure of grade-distribution-graph
    graphStatus,     \* browser: how the last update_graph request ended
    pendingOptions,  \* browser: a set_secondary_options request is outstanding
    pendingGraph     \* browser: an update_graph request is outstanding

vars == <<pc, raw, df, reply, primary, secondary, options, figure,
          graphStatus, pendingOptions, pendingGraph>>

browserVars == <<primary, secondary, options, figure, graphStatus,
                 pendingOptions, pendingGraph>>

-----------------------------------------------------------------------------
(* Bounds of the model *)

MaxRows == 3        \* rows of the CSV file in the server-side specification
MaxRowsUI == 1      \* rows of the CSV file in the browser-side specification

-----------------------------------------------------------------------------
(* Values *)

Range(s) == {s[i] : i \in DOMAIN s}

\* Python None (distinct from every column name and from the empty string)
None == "None"

\* numpy.nan / a missing cell
NaN == [na |-> TRUE]

\* a present cell holding text (a sequence of characters)
Text(s) == [na |-> FALSE, v |-> s]

\* a present cell holding a float, in hundredths
Float(n) == [na |-> FALSE, v |-> n]

\* the values of a dropdown that has no selection
Unset == {None, ""}

\* variant of truthy: only None counts as unset (an `is None` test)
truthy_not_none(x) == x # None

\* Python truthiness of a dropdown value: None and '' are falsy
truthy(x) == x # None /\ x # ""

-----------------------------------------------------------------------------
(* Characters: code points and case mapping of the characters used *)

Ord ==
    ("+" :> 43) @@ ("-" :> 45) @@ ("0" :> 48) @@ ("1" :> 49) @@ ("2" :> 50) @@
    ("3" :> 51) @@ ("4" :> 52) @@ ("5" :> 53) @@ ("6" :> 54) @@ ("7" :> 55) @@
    ("8" :> 56) @@ ("9" :> 57) @@ ("A" :> 65) @@ ("B" :> 66) @@ ("C" :> 67) @@
    ("D" :> 68) @@ ("E" :> 69) @@ ("F" :> 70) @@ ("G" :> 71) @@ ("H" :> 72) @@
    ("I" :> 73) @@ ("J" :> 74) @@ ("K" :> 75) @@ ("L" :> 76) @@ ("M" :> 77) @@
    ("N" :> 78) @@ ("O" :> 79) @@ ("P" :> 80) @@ ("Q" :> 81) @@ ("R" :> 82) @@
    ("S" :> 83) @@ ("T" :> 84) @@ ("U" :> 85) @@ ("V" :> 86) @@ ("W" :> 87) @@
    ("X" :> 88) @@ ("Y" :> 89) @@ ("Z" :> 90) @@ ("a" :> 97) @@ ("b" :> 98) @@
    ("c" :> 99) @@ ("d" :> 100) @@ ("e" :> 101) @@ ("f" :> 102) @@ ("g" :> 103) @@
    ("h" :> 104) @@ ("i" :> 105) @@ ("j" :> 106) @@ ("k" :> 107) @@ ("l" :> 108) @@
    ("m" :> 109) @@ ("n" :> 110) @@ ("o" :> 111) @@ ("p" :> 112) @@ ("q" :> 113) @@
    ("r" :> 114) @@ ("s" :> 115) @@ ("t" :> 116) @@ ("u" :> 117) @@ ("v" :> 118) @@
    ("w" :> 119) @@ ("x" :> 120) @@ ("y" :> 121) @@ ("z" :> 122)

Chr == [n \in {Ord[c] : c \in DOMAIN Ord} |-> CHOOSE c \in DOMAIN Ord : Ord[c] = n]

\* str.lower() on one character: A-Z go to a-z, everything else is kept
lower_char(c) ==
    IF Ord[c] >= 65 /\ Ord[c] <= 90 THEN Chr[Ord[c] + 32] ELSE c

\* variant of upper_char: the case is swapped (str.swapcase)
upper_char_swap(c) ==
    IF Ord[c] >= 97 /\ Ord[c] <= 122 THEN Chr[Ord[c] - 32]
    ELSE IF Ord[c] >= 65 /\ Ord[c] <= 90 THEN Chr[Ord[c] + 32] ELSE c

\* str.upper() on one character: a-z go to A-Z, everything else is kept
upper_char(c) ==
    IF Ord[c] >= 97 /\ Ord[c] <= 122 THEN Chr[Ord[c] - 32] ELSE c

\* Series.str.lower() on one cell: NaN stays NaN
str_lower(cell) ==
    IF cell.na THEN NaN ELSE Text([i \in DOMAIN cell.v |-> lower_char(cell.v[i])])

\* Series.str.upper() on one cell: NaN stays NaN
str_upper(cell) ==
    IF cell.na THEN NaN ELSE Text([i \in DOMAIN cell.v |-> upper_char(cell.v[i])])

RECURSIVE digits(_)
\* str(n) for a non-negative integer
digits(n) ==
    IF n < 10 THEN <<Chr[48 + n]>> ELSE Append(digits(n \div 10), Chr[48 + (n % 10)])

-----------------------------------------------------------------------------
(* The table *)

\* header of the CSV file (section 6 of the specification lists the columns)
CsvColumns ==
    <<"Course", "COVID Impact", "First Generation", "Gender",
      "Race/Ethnicity", "Semester", "Grade">>

\* one CSV record; the columns not varied here hold a fixed text
CsvRow(course, grade, gender, race) ==
    [c \in Range(CsvColumns) |->
        CASE c = "Course" -> course
          [] c = "Grade" -> grade
          [] c = "Gender" -> gender
          [] c = "Race/Ethnicity" -> race
          [] c = "Semester" -> Text(<<"F", "2", "0">>)
          [] OTHER -> Text(<<"N", "o">>)]

\* the records a CSV file of the model is made of: courses and genders that
\* differ only in letter case, a grade outside the scale, a missing cell
CsvRows ==
    { CsvRow(Text(<<"c", "s", "1">>), Text(<<"A">>), Text(<<"F">>), Text(<<"A", "s">>)),
      CsvRow(Text(<<"C", "S", "1">>), Text(<<"B">>), Text(<<"f">>), Text(<<"a", "s">>)),
      CsvRow(Text(<<"C", "s", "2">>), Text(<<"W">>), Text(<<"M">>), Text(<<"W", "m">>)),
      CsvRow(Text(<<"C", "S", "1">>), Text(<<"Z">>), Text(<<"F">>), Text(<<"a", "s">>)),
      CsvRow(Text(<<"C", "S", "2">>), Text(<<"A">>), NaN, Text(<<"W", "m">>)) }

\* sequences of at most n elements of S
SeqUpTo(S, n) == UNION {[1..k -> S] : k \in 0..n}

\* the complete records among them whose grade is A or W
CsvRowsUI ==
    {r \in CsvRows : ~r["Gender"].na /\ r["Grade"].v \in {<<"A">>, <<"W">>}}

\* the DataFrame read from a CSV file of at most n records taken from R
DataFrames(R, n) == {[columns |-> CsvColumns, rows |-> r] : r \in SeqUpTo(R, n)}

\* `x in df.columns`
in_columns(d, x) == x \in Range(d.columns)

\* df.dropna(): keep the rows without a missing cell in any column
dropna(d) ==
    [d EXCEPT !.rows = SelectSeq(d.rows, LAMBDA r : \A c \in Range(d.columns) : ~r[c].na)]

\* df.dropna(subset=[col]): keep the rows whose cell in col is present
dropna_subset(d, col) ==
    [d EXCEPT !.rows = SelectSeq(d.rows, LAMBDA r : ~r[col].na)]

\* df[col] = series: the column is appended when new, replaced otherwise
assign(d, col, series) ==
    [columns |-> IF in_columns(d, col) THEN d.columns ELSE Append(d.columns, col),
     rows |-> [i \in DOMAIN d.rows |->
                 [c \in DOMAIN d.rows[i] \cup {col} |->
                     IF c = col THEN series[i] ELSE d.rows[i][c]]]]

\* the dictionary of grade_to_number, values in hundredths
grade_mapping ==
    (<<"A", "+">> :> 433) @@ (<<"A">> :> 400) @@ (<<"A", "-">> :> 367) @@
    (<<"B", "+">> :> 333) @@ (<<"B">> :> 300) @@ (<<"B", "-">> :> 267) @@
    (<<"C", "+">> :> 233) @@ (<<"C">> :> 200) @@ (<<"C", "-">> :> 167) @@
    (<<"D", "+">> :> 133) @@ (<<"D">> :> 100) @@ (<<"D", "-">> :> 67) @@
    (<<"F">> :> 0) @@ (<<"W">> :> -30)

\* variant of grade_to_number: a falsy number (F is 0.00) is taken for no grade
grade_to_number_falsy(grade) ==
    IF grade.na THEN NaN
    ELSE IF grade.v \in DOMAIN grade_mapping /\ grade_mapping[grade.v] # 0
         THEN Float(grade_mapping[grade.v]) ELSE NaN

\* grade_mapping.get(grade, np.nan)
grade_to_number(grade) ==
    IF grade.na THEN NaN
    ELSE IF grade.v \in DOMAIN grade_mapping THEN Float(grade_mapping[grade.v]) ELSE NaN

\* the six statements of the startup script, in program order
Line16(d) == dropna(d)
Line31(d) ==
    assign(d, "grade_numeric", [i \in DOMAIN d.rows |-> grade_to_number(d.rows[i]["Grade"])])
Line34(d) == dropna_subset(d, "grade_numeric")
Line37(d) ==
    assign(d, "Gender", [i \in DOMAIN d.rows |-> str_lower(d.rows[i]["Gender"])])
Line38(d) ==
    assign(d, "Race/Ethnicity",
           [i \in DOMAIN d.rows |-> str_lower(d.rows[i]["Race/Ethnicity"])])
Line39_missing(d) == d
Line39(d) ==
    assign(d, "Course", [i \in DOMAIN d.rows |-> str_upper(d.rows[i]["Course"])])

\* lines 16-39 run on a table
Pipeline(d) == Line39(Line38(Line37(Line34(Line31(Line16(d))))))

-----------------------------------------------------------------------------
(* DataFrame.groupby(fields).size().reset_index(name='counts') *)

\* the grouping key of a row: its cells in the grouping columns
key_of(r, fields) == [i \in DOMAIN fields |-> r[fields[i]]]

\* Python's order on str: lexicographic by code point
text_less(s, t) ==
    \E i \in 1..Len(t) :
        /\ i - 1 <= Len(s)
        /\ \A j \in 1..(i - 1) : s[j] = t[j]
        /\ (i > Len(s) \/ Ord[s[i]] < Ord[t[i]])

\* order of two present cells of one column
cell_less(col, a, b) ==
    IF col = "grade_numeric" THEN a.v < b.v ELSE text_less(a.v, b.v)

\* order of two grouping keys: lexicographic over the grouping columns
key_less(fields, a, b) ==
    \E i \in DOMAIN fields :
        /\ \A j \in 1..(i - 1) : a[j] = b[j]
        /\ cell_less(fields[i], a[i], b[i])

RECURSIVE sort_keys(_, _)
\* groupby(sort=True): the observed keys in ascending order
sort_keys(S, fields) ==
    IF S = {} THEN <<>>
    ELSE LET m == CHOOSE k \in S : \A o \in S \ {k} : key_less(fields, k, o)
         IN  <<m>> \o sort_keys(S \ {m}, fields)

RECURSIVE count_rows_first(_, _, _)
\* variant of count_rows: a group already seen is not incremented
count_rows_first(rows, fields, acc) ==
    IF rows = <<>> THEN acc
    ELSE LET r == Head(rows)
             k == key_of(r, fields)
             next == IF \E i \in DOMAIN fields : r[fields[i]].na THEN acc
                     ELSE IF k \in DOMAIN acc THEN acc
                     ELSE acc @@ (k :> 1)
         IN  count_rows_first(Tail(rows), fields, next)

RECURSIVE count_rows(_, _, _)
\* one pass over the rows: the size of each observed group; a row with a
\* missing key cell belongs to no group (groupby(dropna=True))
count_rows(rows, fields, acc) ==
    IF rows = <<>> THEN acc
    ELSE LET r == Head(rows)
             k == key_of(r, fields)
             next == IF \E i \in DOMAIN fields : r[fields[i]].na THEN acc
                     ELSE IF k \in DOMAIN acc THEN [acc EXCEPT ![k] = @ + 1]
                     ELSE acc @@ (k :> 1)
         IN  count_rows(Tail(rows), fields, next)

\* the frame `counts` after line 132: one row per observed key, sorted by key
groupby_size(d, fields) ==
    LET size == count_rows(d.rows, fields, [k \in {} |-> 0])
        keys == sort_keys(DOMAIN size, fields)
    IN  [i \in DOMAIN keys |->
            [c \in Range(fields) \cup {"counts"} |->
                IF c = "counts" THEN size[keys[i]]
                ELSE keys[i][CHOOSE j \in DOMAIN fields : fields[j] = c]]]

RECURSIVE sum_where(_, _, _)
\* sum of `counts` over the rows of cnt whose key on fields equals k
sum_where(cnt, fields, k) ==
    IF cnt = <<>> THEN 0
    ELSE (IF key_of(Head(cnt), fields) = k THEN Head(cnt)["counts"] ELSE 0)
         + sum_where(Tail(cnt), fields, k)

\* counts.groupby(fields)['counts'].transform('sum'), aligned with cnt
transform_sum(cnt, fields) ==
    [i \in DOMAIN cnt |-> sum_where(cnt, fields, key_of(cnt[i], fields))]

\* DataFrame.groupby raises for a key that is no column (KeyError) and
\* reset_index raises when a key column would be inserted twice (ValueError)
groupby_raises(d, fields) ==
    \/ \E i \in DOMAIN fields : ~in_columns(d, fields[i])
    \/ \E i, j \in DOMAIN fields : i # j /\ fields[i] = fields[j]

\* Series.nunique(): number of distinct present values
nunique(d, col) == Cardinality({d.rows[i][col] : i \in {j \in DOMAIN d.rows : ~d.rows[j][col].na}})

-----------------------------------------------------------------------------
(* The callbacks *)

\* values of the primary-category-dropdown options (lines 67-74)
PrimaryOptions ==
    {"Course", "COVID Impact", "First Generation", "Gender", "Race/Ethnicity", "Semester"}

\* chart heights of update_graph
height_per_subplot == 900
min_total_height == 900
default_height == 1000

\* how a callback ended: it returned its output, raised PreventUpdate, or
\* raised another exception
Statuses == {"returned", "prevent_update", "exception"}

\* a reply that carries no output
NoOutput == [none |-> TRUE]

\* variant of set_secondary_options: the selected primary is not excluded
set_secondary_options_keep_primary(d, selected_primary) ==
    LET all_options == SelectSeq(d.columns,
            LAMBDA col : col \notin {"Grade", "grade_numeric"})
    IN  [i \in DOMAIN all_options |-> [label |-> all_options[i], value |-> all_options[i]]]

\* variant of set_secondary_options: Grade is not excluded
set_secondary_options_keep_grade(d, selected_primary) ==
    LET all_options == SelectSeq(d.columns,
            LAMBDA col : col \notin {"grade_numeric", selected_primary})
    IN  [i \in DOMAIN all_options |-> [label |-> all_options[i], value |-> all_options[i]]]

\* set_secondary_options: the list comprehension of line 102 and the
\* label/value dictionaries of line 104
set_secondary_options(d, selected_primary) ==
    LET all_options == SelectSeq(d.columns,
            LAMBDA col : col \notin {"Grade", "grade_numeric", selected_primary})
    IN  [i \in DOMAIN all_options |-> [label |-> all_options[i], value |-> all_options[i]]]

\* line 117
color_col(d, p) == IF in_columns(d, p) THEN p ELSE None

\* variant of facet_row: the comparison with the primary selection is missing
facet_row_unguarded(d, p, s) == IF truthy(s) /\ in_columns(d, s) THEN s ELSE None

\* line 118
facet_row(d, p, s) == IF truthy(s) /\ in_columns(d, s) /\ s # p THEN s ELSE None

\* lines 124-129
group_fields(d, p, s) ==
    IF truthy(facet_row(d, p, s))
    THEN <<color_col(d, p), facet_row(d, p, s), "Grade">>
    ELSE <<color_col(d, p), "Grade">>

\* variant of but_last: the slice is forgotten
but_last_whole(fields) == fields

\* group_fields[:-1]
but_last(fields) == SubSeq(fields, 1, Len(fields) - 1)

\* line 133: the denominators, aligned with the rows of `counts`
total_counts(d, p, s) ==
    transform_sum(groupby_size(d, group_fields(d, p, s)), but_last(group_fields(d, p, s)))

\* the frame `counts` after line 137: key columns, counts, percentage
\* (counts / total_counts * 100, kept as a fraction) and Count (counts as text)
counts(d, p, s) ==
    LET cnt == groupby_size(d, group_fields(d, p, s))
        tot == total_counts(d, p, s)
    IN  [i \in DOMAIN cnt |->
            [c \in DOMAIN cnt[i] \cup {"percentage", "Count"} |->
                CASE c = "percentage" -> [num |-> cnt[i]["counts"] * 100, den |-> tot[i]]
                  [] c = "Count" -> digits(cnt[i]["counts"])
                  [] OTHER -> cnt[i][c]]]

\* the condition of line 140
wants_facets(p, s) == truthy(s) /\ p # s

\* lines 140-146
total_height(d, p, s) ==
    IF wants_facets(p, s)
    THEN LET unique_values == nunique(d, s)
             h == unique_values * height_per_subplot
         IN  IF h > min_total_height THEN h ELSE min_total_height
    ELSE default_height

\* the figure handed to the chart library (lines 149-163): the data frame,
\* the colour and facet columns, the title parts and the height
make_figure(d, p, s) ==
    [data |-> counts(d, p, s),
     color |-> color_col(d, p),
     facet_row |-> facet_row(d, p, s),
     title |-> [by |-> p, and |-> IF truthy(facet_row(d, p, s)) THEN s ELSE None],
     height |-> total_height(d, p, s)]

\* update_graph as a whole: PreventUpdate (line 114), an exception raised by
\* groupby (line 131) or by filtered_df[secondary_selection] (line 141), or
\* the figure
update_graph(d, p, s) ==
    IF ~truthy(p) THEN [status |-> "prevent_update", output |-> NoOutput]
    ELSE IF groupby_raises(d, group_fields(d, p, s))
         THEN [status |-> "exception", output |-> NoOutput]
    ELSE IF wants_facets(p, s) /\ ~in_columns(d, s)
         THEN [status |-> "exception", output |-> NoOutput]
    ELSE [status |-> "returned", output |-> make_figure(d, p, s)]

\* variant of df_after_callback: the Count column is written through the
\* alias filtered_df into the module-level table
df_after_callback_aliased(d) ==
    assign(d, "Count", [i \in DOMAIN d.rows |-> Text(<<"1">>)])

\* the module-level table after a callback returned: both callbacks only
\* read df (filtered_df is an alias, `counts` is a new frame)
df_after_callback(d) == d

-----------------------------------------------------------------------------
(* Startup: lines 13-39, one statement per step *)

NoReply == [fn |-> "none"]
NoFigure == [none |-> TRUE]

Start(tables) ==
    /\ raw \in tables
    /\ df = raw
    /\ pc = "line16"
    /\ reply = NoReply
    /\ primary = "Course"
    /\ secondary = None
    /\ options = <<>>
    /\ figure = NoFigure
    /\ graphStatus = "none"
    /\ pendingOptions = TRUE
    /\ pendingGraph = TRUE

Statement(at, result, to) ==
    /\ pc = at
    /\ df' = result
    /\ pc' = to
    /\ UNCHANGED <<raw, reply, browserVars>>

DropMissing == Statement("line16", Line16(df), "line31")
ConvertGrades == Statement("line31", Line31(df), "line34")
DropUnmapped == Statement("line34", Line34(df), "line37")
LowerGender == Statement("line37", Line37(df), "line38")
LowerRace == Statement("line38", Line38(df), "line39")
UpperCourse == Statement("line39", Line39(df), "serving")

Startup ==
    \/ DropMissing
    \/ ConvertGrades
    \/ DropUnmapped
    \/ LowerGender
    \/ LowerRace
    \/ UpperCourse

-----------------------------------------------------------------------------
(* Server side: the callbacks answer requests with any input values *)

\* input values a request may carry: the columns, no value, the empty
\* string, a name that is no column
RequestValues == Range(CsvColumns) \cup {"grade_numeric", None, "", "Unknown"}

ServeOptions(p) ==
    /\ pc = "serving"
    /\ reply = NoReply
    /\ reply' = [fn |-> "set_secondary_options", primary |-> p, secondary |-> None,
                 status |-> "returned", output |-> set_secondary_options(df, p)]
    /\ df' = df_after_callback(df)
    /\ UNCHANGED <<pc, raw, browserVars>>

ServeGraph(p, s) ==
    /\ pc = "serving"
    /\ reply = NoReply
    /\ LET r == update_graph(df, p, s)
       IN  reply' = [fn |-> "update_graph", primary |-> p, secondary |-> s,
                     status |-> r.status, output |-> r.output]
    /\ df' = df_after_callback(df)
    /\ UNCHANGED <<pc, raw, browserVars>>

\* the reply has been sent; the value the callback built is dropped
Discard ==
    /\ reply # NoReply
    /\ reply' = NoReply
    /\ UNCHANGED <<pc, raw, df, browserVars>>

Init == Start(DataFrames(CsvRows, MaxRows))

Next ==
    \/ Startup
    \/ \E p \in RequestValues : ServeOptions(p)
    \/ \E p, s \in RequestValues : ServeGraph(p, s)
    \/ Discard

Spec == Init /\ [][Next]_vars

-----------------------------------------------------------------------------
(* Browser side: the two dropdowns drive the callbacks *)

\* the user picks another overview category; both callbacks depend on it
SelectPrimary(p) ==
    /\ pc = "serving"
    /\ p # primary
    /\ primary' = p
    /\ pendingOptions' = TRUE
    /\ pendingGraph' = TRUE
    /\ UNCHANGED <<pc, raw, df, reply, secondary, options, figure, graphStatus>>

\* the user picks one of the drill-down categories on offer
SelectSecondary(s) ==
    /\ pc = "serving"
    /\ s \in {options[i].value : i \in DOMAIN options}
    /\ s # secondary
    /\ secondary' = s
    /\ pendingGraph' = TRUE
    /\ UNCHANGED <<pc, raw, df, reply, primary, options, figure, graphStatus, pendingOptions>>

\* the user clears the drill-down dropdown (clearable=True)
ClearSecondary ==
    /\ pc = "serving"
    /\ secondary # None
    /\ secondary' = None
    /\ pendingGraph' = TRUE
    /\ UNCHANGED <<pc, raw, df, reply, primary, options, figure, graphStatus, pendingOptions>>

\* set_secondary_options runs on the primary value; its output becomes the
\* options of the drill-down dropdown
RunOptions ==
    /\ pc = "serving"
    /\ pendingOptions
    /\ options' = set_secondary_options(df, primary)
    /\ pendingOptions' = FALSE
    /\ df' = df_after_callback(df)
    /\ UNCHANGED <<pc, raw, reply, primary, secondary, figure, graphStatus, pendingGraph>>

\* what the browser does with a reply of update_graph given inputs p, s
ApplyGraph(p, s) ==
    LET r == update_graph(df, p, s)
    IN  /\ figure' = IF r.status = "returned" THEN r.output ELSE figure
        /\ graphStatus' = r.status
        /\ df' = df_after_callback(df)

\* update_graph runs on the two dropdown values
RunGraph ==
    /\ pc = "serving"
    /\ pendingGraph
    /\ ApplyGraph(primary, secondary)
    /\ pendingGraph' = FALSE
    /\ UNCHANGED <<pc, raw, reply, primary, secondary, options, pendingOptions>>

\* update_graph is requested with no primary value, as happens when the
\* request does not come from the (non-clearable) primary dropdown
RunGraphUnset(p) ==
    /\ pc = "serving"
    /\ p \in Unset
    /\ ApplyGraph(p, secondary)
    /\ UNCHANGED <<pc, raw, reply, primary, secondary, options, pendingOptions, pendingGraph>>

InitUI == Start(DataFrames(CsvRowsUI, MaxRowsUI))

NextUI ==
    \/ Startup
    \/ \E p \in PrimaryOptions : SelectPrimary(p)
    \/ \E s \in RequestValues : SelectSecondary(s)
    \/ ClearSecondary
    \/ RunOptions
    \/ RunGraph
    \/ \E p \in Unset : RunGraphUnset(p)

SpecUI == InitUI /\ [][NextUI]_vars

-----------------------------------------------------------------------------
(* Properties *)

RECURSIVE SumOver(_, _)
\* sum of f over the finite set S
SumOver(f, S) ==
    IF S = {} THEN 0
    ELSE LET x == CHOOSE y \in S : TRUE IN f[x] + SumOver(f, S \ {x})

\* a reply of update_graph that carries a figure
GraphReturned == reply.fn = "update_graph" /\ reply.status = "returned"

\* the drill-down fields that may accompany primary field P: none, or a
\* column of the table other than P and Grade
DrillDowns(P) == {None} \cup (Range(df.columns) \ {P, "Grade"})

\* the (P[, S]) part of the grouping key
GroupKey(P, S) == IF S = None THEN <<P>> ELSE <<P, S>>

\* the fourteen grade symbols and their numeric values, in hundredths
GradeScale ==
    { <<<<"A", "+">>, 433>>, <<<<"A">>, 400>>, <<<<"A", "-">>, 367>>,
      <<<<"B", "+">>, 333>>, <<<<"B">>, 300>>, <<<<"B", "-">>, 267>>,
      <<<<"C", "+">>, 233>>, <<<<"C">>, 200>>, <<<<"C", "-">>, 167>>,
      <<<<"D", "+">>, 133>>, <<<<"D">>, 100>>, <<<<"D", "-">>, 67>>,
      <<<<"F">>, 0>>, <<<<"W">>, -30>> }

GradeSymbols == {e[1] : e \in GradeScale}

\* the rows of the CSV file that have no missing value and a grade of the scale
ValidInput ==
    SelectSeq(raw.rows, LAMBDA r :
        /\ \A c \in Range(raw.columns) : ~r[c].na
        /\ r["Grade"].v \in GradeSymbols)

\* C1: for every primary field P and optional secondary field S # P, within
\* each (P[, S]) group of the aggregated rows the counts sum to the
\* denominator every row of the group uses, every percentage is
\* 100 * count / denominator, and so the percentages of the group sum to 100.
C1_GroupPercentagesSumTo100 ==
    (GraphReturned /\ reply.primary \in PrimaryOptions
                   /\ reply.secondary \in DrillDowns(reply.primary)) =>
        LET rows == reply.output.data
            key == GroupKey(reply.primary, reply.secondary)
            cnt == [i \in DOMAIN rows |-> rows[i]["counts"]]
            num == [i \in DOMAIN rows |-> rows[i]["percentage"].num]
            den == [i \in DOMAIN rows |-> rows[i]["percentage"].den]
        IN  \A i \in DOMAIN rows :
                LET group == {j \in DOMAIN rows : key_of(rows[j], key) = key_of(rows[i], key)}
                IN  /\ \A j \in group : den[j] = den[i]
                    /\ SumOver(cnt, group) = den[i]
                    /\ num[i] = 100 * cnt[i]
                    /\ den[i] > 0
                    /\ SumOver(num, group) = 100 * den[i]

\* C1 witness: a figure grouped by two fields in which one group holds two grades
C1_Witness ==
    /\ GraphReturned /\ reply.primary \in PrimaryOptions
    /\ reply.secondary \in DrillDowns(reply.primary) \ {None}
    /\ \E i, j \in DOMAIN reply.output.data :
          LET rows == reply.output.data
              key == GroupKey(reply.primary, reply.secondary)
          IN  i # j /\ key_of(rows[i], key) = key_of(rows[j], key)

\* C2: each aggregated row's count is the number of table records with its
\* full key, its denominator the number of records with its key without
\* Grade, every record is counted in exactly one row; and the rows
\* (CS1, A), (CS1, B), (CS1, A) grouped by Course give A 2 of 3 and B 1 of 3.
C2_CountsMatchRecords ==
    (GraphReturned /\ reply.primary \in PrimaryOptions
                   /\ reply.secondary \in DrillDowns(reply.primary)) =>
        LET rows == reply.output.data
            key == GroupKey(reply.primary, reply.secondary)
            full == Append(key, "Grade")
            recs == DOMAIN df.rows
        IN  /\ \A i \in DOMAIN rows :
                /\ rows[i]["counts"] =
                      Cardinality({k \in recs : key_of(df.rows[k], full) = key_of(rows[i], full)})
                /\ rows[i]["percentage"].den =
                      Cardinality({k \in recs : key_of(df.rows[k], key) = key_of(rows[i], key)})
                /\ rows[i]["percentage"].num = 100 * rows[i]["counts"]
            /\ \A k \in recs :
                Cardinality({i \in DOMAIN rows :
                                key_of(rows[i], full) = key_of(df.rows[k], full)}) = 1
            /\ ( /\ reply.primary = "Course" /\ reply.secondary = None
                 /\ [k \in recs |-> <<df.rows[k]["Course"].v, df.rows[k]["Grade"].v>>]
                       = << <<<<"C", "S", "1">>, <<"A">>>>,
                            <<<<"C", "S", "1">>, <<"B">>>>,
                            <<<<"C", "S", "1">>, <<"A">>>> >> )
               => [i \in DOMAIN rows |->
                      <<rows[i]["Course"].v, rows[i]["Grade"].v,
                        rows[i]["counts"], rows[i]["percentage"].den>>]
                     = << <<<<"C", "S", "1">>, <<"A">>, 2, 3>>,
                          <<<<"C", "S", "1">>, <<"B">>, 1, 3>> >>

\* C2 witness: the three-row example aggregated by Course alone
C2_Witness ==
    /\ GraphReturned /\ reply.primary = "Course" /\ reply.secondary = None
    /\ [k \in DOMAIN df.rows |-> df.rows[k]["Grade"].v] = << <<"A">>, <<"B">>, <<"A">> >>
    /\ Len(reply.output.data) = 2
    /\ reply.output.data[1]["counts"] = 2

\* C3: the served table holds exactly the CSV rows without a missing value
\* and with a grade of the scale, each with the numeric value of its grade;
\* grade_to_number agrees with the scale on every symbol and maps nothing
\* else; a dropped row is counted in no aggregation.
C3_RetainedRowsAndGrades ==
    /\ \A e \in GradeScale : grade_to_number(Text(e[1])) = Float(e[2])
    /\ \A g \in SeqUpTo({"A", "B", "F", "W", "Z", "a", "f", "+", "-"}, 2) \ GradeSymbols :
          grade_to_number(Text(g)) = NaN
    /\ pc = "serving" =>
          /\ Len(df.rows) = Len(ValidInput)
          /\ \A i \in DOMAIN df.rows :
                /\ \A c \in Range(raw.columns) \ {"Gender", "Race/Ethnicity", "Course"} :
                      df.rows[i][c] = ValidInput[i][c]
                /\ \A c \in {"Gender", "Race/Ethnicity", "Course"} :
                      str_lower(df.rows[i][c]) = str_lower(ValidInput[i][c])
                /\ \E e \in GradeScale :
                      /\ df.rows[i]["Grade"] = Text(e[1])
                      /\ df.rows[i]["grade_numeric"] = Float(e[2])
    /\ (GraphReturned /\ reply.primary \in PrimaryOptions
                      /\ reply.secondary \in DrillDowns(reply.primary)) =>
          LET rows == reply.output.data
              cnt == [i \in DOMAIN rows |-> rows[i]["counts"]]
          IN  /\ SumOver(cnt, DOMAIN rows) = Len(ValidInput)
              /\ \A i \in DOMAIN rows : rows[i]["Grade"].v \in GradeSymbols

\* C3 witness: a file with a row graded Z and a row graded W has been
\* loaded and aggregated
C3_Witness ==
    /\ GraphReturned /\ reply.primary \in PrimaryOptions /\ reply.secondary = None
    /\ \E i \in DOMAIN raw.rows : raw.rows[i]["Grade"] = Text(<<"Z">>)
    /\ \E i \in DOMAIN df.rows :
          df.rows[i]["Grade"] = Text(<<"W">>) /\ df.rows[i]["grade_numeric"] = Float(-30)
    /\ Len(df.rows) < Len(raw.rows)

\* C4: the grouping key is [primary] when the secondary selection is absent
\* or equal to the primary and [primary, secondary] otherwise, it never holds
\* a field twice, and update_graph(P, P) produces the rows, facet setting and
\* height of update_graph(P, no secondary).
C4_SecondaryEqualToPrimaryIgnored ==
    (reply.fn = "update_graph" /\ reply.primary \in PrimaryOptions
        /\ reply.secondary \in Range(df.columns) \cup {None, ""}) =>
        LET P == reply.primary
            S == reply.secondary
            key == but_last(group_fields(df, P, S))
        IN  /\ key = IF S \in {None, "", P} THEN <<P>> ELSE <<P, S>>
            /\ \A i, j \in DOMAIN key : i # j => key[i] # key[j]
            /\ S = P =>
                  /\ reply.status = "returned"
                  /\ update_graph(df, P, None).status = "returned"
                  /\ reply.output.data = update_graph(df, P, None).output.data
                  /\ reply.output.facet_row = update_graph(df, P, None).output.facet_row
                  /\ reply.output.height = update_graph(df, P, None).output.height

\* C4 witness: update_graph answered a request whose secondary is its primary
C4_Witness ==
    /\ GraphReturned /\ reply.primary \in PrimaryOptions
    /\ reply.secondary = reply.primary
    /\ Len(reply.output.data) >= 2
    /\ reply.output.facet_row = None

\* C5: update_graph invoked with the primary selection unset, whatever the
\* secondary selection, ends in PreventUpdate: the chart on the page stays
\* as it was, no exception is raised and nothing else changes.
C5_UnsetPrimaryKeepsChart ==
    [][\A p \in Unset :
          RunGraphUnset(p) =>
              /\ figure' = figure
              /\ graphStatus' = "prevent_update"
              /\ update_graph(df, p, secondary).output = NoOutput
              /\ df' = df]_vars

\* C5 witness: a chart grouped by two fields is on the page and the last
\* update_graph request ended in PreventUpdate
C5_Witness ==
    /\ graphStatus = "prevent_update"
    /\ figure # NoFigure
    /\ figure.facet_row # None
    /\ secondary # None

\* C6: set_secondary_options(P) returns the table's columns without Grade,
\* grade_numeric and P, each once, whatever the rows of the table are; for
\* P = Course the result holds none of Course, Grade, grade_numeric.
C6_DrillDownOptions ==
    reply.fn = "set_secondary_options" =>
        LET P == reply.primary
            out == reply.output
            values == {out[i].value : i \in DOMAIN out}
        IN  /\ reply.status = "returned"
            /\ values = Range(df.columns) \ {"Grade", "grade_numeric", P}
            /\ Len(out) = Cardinality(values)
            /\ \A i \in DOMAIN out : out[i].label = out[i].value
            /\ out = set_secondary_options([columns |-> df.columns, rows |-> <<>>], P)
            /\ P = "Course" => values \cap {"Course", "Grade", "grade_numeric"} = {}

\* C6 witness: set_secondary_options answered for primary Course on a
\* table that has rows
C6_Witness ==
    /\ reply.fn = "set_secondary_options"
    /\ reply.primary = "Course"
    /\ Len(reply.output) = 5
    /\ df.rows # <<>>

\* C7: once the table is built, no callback invocation changes it.
C7_TableNeverMutated ==
    [][pc = "serving" => (df' = df /\ raw' = raw /\ df' = Pipeline(raw))]_vars

\* C7 witness: update_graph produced a non-empty aggregated view while the
\* table is the one built at startup
C7_Witness ==
    /\ GraphReturned
    /\ reply.output.data # <<>>
    /\ reply.secondary \in Range(df.columns)
    /\ df = Pipeline(raw)

\* C8: the startup pipeline run on its own output returns that output.
C8_PipelineIdempotent ==
    pc = "serving" => Pipeline(df) = df

\* C8 witness: a served table whose construction dropped a row and changed
\* the case of a course
C8_Witness ==
    /\ pc = "serving"
    /\ df.rows # <<>>
    /\ Len(df.rows) < Len(raw.rows)
    /\ \E i \in DOMAIN raw.rows : \E j \in DOMAIN df.rows :
          /\ ~raw.rows[i]["Course"].na
          /\ raw.rows[i]["Course"] # df.rows[j]["Course"]
          /\ str_upper(raw.rows[i]["Course"]) = df.rows[j]["Course"]

IsUpperLetter(c) == Ord[c] >= 65 /\ Ord[c] <= 90
IsLowerLetter(c) == Ord[c] >= 97 /\ Ord[c] <= 122

\* two texts that differ at most in the case of their letters
SameLetters(s, t) ==
    /\ Len(s) = Len(t)
    /\ \A i \in DOMAIN s :
          \/ s[i] = t[i]
          \/ IsUpperLetter(s[i]) /\ Ord[t[i]] = Ord[s[i]] + 32
          \/ IsLowerLetter(s[i]) /\ Ord[t[i]] = Ord[s[i]] - 32

\* C9: in the served table Gender and Race/Ethnicity hold no upper-case
\* letter and Course no lower-case letter; retained input rows whose value
\* of such a field differs only in case get the same value, and an
\* aggregation keyed on the field has one group per such class of values.
C9_CanonicalCase ==
    /\ pc = "serving" =>
          /\ \A i \in DOMAIN df.rows :
                /\ \A k \in DOMAIN df.rows[i]["Gender"].v :
                      ~IsUpperLetter(df.rows[i]["Gender"].v[k])
                /\ \A k \in DOMAIN df.rows[i]["Race/Ethnicity"].v :
                      ~IsUpperLetter(df.rows[i]["Race/Ethnicity"].v[k])
                /\ \A k \in DOMAIN df.rows[i]["Course"].v :
                      ~IsLowerLetter(df.rows[i]["Course"].v[k])
          /\ Len(df.rows) = Len(ValidInput)
          /\ \A c \in {"Gender", "Race/Ethnicity", "Course"} :
                \A i, j \in DOMAIN df.rows :
                    SameLetters(ValidInput[i][c].v, ValidInput[j][c].v)
                        => df.rows[i][c] = df.rows[j][c]
    /\ (GraphReturned /\ reply.primary \in {"Gender", "Race/Ethnicity", "Course"}
                      /\ reply.secondary = None) =>
          LET rows == reply.output.data
              c == reply.primary
              classes == {{j \in DOMAIN ValidInput :
                              SameLetters(ValidInput[i][c].v, ValidInput[j][c].v)} :
                          i \in DOMAIN ValidInput}
          IN  Cardinality({rows[i][c] : i \in DOMAIN rows}) = Cardinality(classes)

\* C9 witness: two input rows whose courses differ only in case were
\* aggregated by Course into one group
C9_Witness ==
    /\ GraphReturned /\ reply.primary = "Course" /\ reply.secondary = None
    /\ Len(ValidInput) >= 2
    /\ ValidInput[1]["Course"] # ValidInput[2]["Course"]
    /\ SameLetters(ValidInput[1]["Course"].v, ValidInput[2]["Course"].v)
    /\ Cardinality({reply.output.data[i]["Course"] : i \in DOMAIN reply.output.data}) = 1

\* C10: every update_graph run on the values of the two dropdowns groups by
\* fields that are columns of the table and pairwise distinct, and returns a
\* figure; a secondary value equal to the primary is not grouped on; no
\* update_graph request from the page ends in an exception.
C10_DropdownsNeverBreakGrouping ==
    [][ /\ RunGraph =>
            LET fields == group_fields(df, primary, secondary)
            IN  /\ \A i \in DOMAIN fields : in_columns(df, fields[i])
                /\ \A i, j \in DOMAIN fields : i # j => fields[i] # fields[j]
                /\ graphStatus' = "returned"
                /\ figure'.color = primary
                /\ figure'.facet_row = IF secondary \in {None, primary} THEN None ELSE secondary
        /\ graphStatus' # "exception" ]_vars

\* C10 witness: the primary was changed to the field held as secondary and
\* update_graph has run on that pair
C10_Witness ==
    /\ primary = secondary
    /\ ~pendingGraph
    /\ graphStatus = "returned"
    /\ figure.title.by = primary
    /\ figure.facet_row = None

=============================================================================
